---- MODULE Spec2Model ----
(***************************************************************************)
(* Model of AttributionAnalysisService.createAttributionAnalysisVisual     *)
(* (control-plane/backend/lambda/api/service/attribution.ts).              *)
(*                                                                         *)
(* Every request is one process p.  The handler is cut at its await        *)
(* points: the code between two awaits is one atomic action.  The          *)
(* collaborators imported from ./quicksight/reporting-utils,               *)
(* ./quicksight/sql-builder-attribution, ./reporting and ./pipeline are    *)
(* modelled from the design document; the handler itself is modelled line  *)
(* by line.                                                                *)
(***************************************************************************)
EXTENDS Integers, Sequences, FiniteSets, TLC

VARIABLES pc, request, query, pipeline, sheetId, pending, result, trace,
          builderCalls, resCalls, nextCalls, callerResponse,
          nextUuid, adapterCalls, tempViews,
          phase, rows, window, creditModel, credits, runs,
          refreshPc, refreshEvents, sqlStatements, executed, executeResults,
          refreshOutcomes,
          viewPhase, baseView, retentionView

vars == <<pc, request, query, pipeline, sheetId, pending, result, trace,
          builderCalls, resCalls, nextCalls, callerResponse,
          nextUuid, adapterCalls, tempViews,
          phase, rows, window, creditModel, credits, runs,
          refreshPc, refreshEvents, sqlStatements, executed, executeResults,
          refreshOutcomes,
          viewPhase, baseView, retentionView>>

\* the state of the attribution query: the event rows of one user, the
\* time window, the model, the credit computed per (conversion, touch), and
\* the touches selected by runs of the single-point selection
creditVars == <<phase, rows, window, creditModel, credits, runs>>

\* the state of the refresh-basic-view lambda: where the handler stands, the
\* events it was invoked with, its local sqlStatements array, the statement
\* lists handed to executeStatements, what executeStatements answered, and
\* what each invocation returned or threw
refreshVars == <<refreshPc, refreshEvents, sqlStatements, executed,
                 executeResults, refreshOutcomes>>

\* the content of clickstream_retention_base_view and the rows the
\* retention view returns for it
retentionVars == <<viewPhase, baseView, retentionView>>

(***************************************************************************)
(* Bounds and value domains                                                *)
(***************************************************************************)
\* longest free-text event name of a request
MaxStrLen == 2

Procs == {1, 2}

\* JavaScript undefined for string-valued fields
Undefined == "undefined"

QUOTE == "'"
Alphabet == {"a", QUOTE}

RECURSIVE StrsOfLen(_)
StrsOfLen(n) ==
  IF n = 0 THEN {<<>>}
  ELSE {Append(s, c) : s \in StrsOfLen(n - 1), c \in Alphabet}

Strs == UNION {StrsOfLen(n) : n \in 0..MaxStrLen}

AttributionModelType == {"FIRST_TOUCH", "LAST_TOUCH", "LINEAR", "POSITION"}
PREVIEW == "PREVIEW"
PUBLISH == "PUBLISH"

ProjectIds == {"", "p1", "p2"}
AppIds == {"", "a1", "a2"}

\* time scope of a request: relative count+unit, absolute start+end,
\* a mix of both, or neither
TimeScopes == {"relative", "absolute", "mixed", "none"}

Requests ==
  [projectId : ProjectIds,
   appId : AppIds,
   modelType : AttributionModelType \cup {"UNKNOWN"},
   timeScope : TimeScopes,
   touchPointEventName : Strs,
   conversionEventName : {<<>>, <<"c">>},
   dashboardId : {Undefined, "d1"},
   sheetId : {Undefined, "s1"},
   action : {PREVIEW, PUBLISH},
   viewName : {"v1", "v2"},
   timezone : {Undefined}]

IdleRequest ==
  [projectId |-> "", appId |-> "", modelType |-> "UNKNOWN",
   timeScope |-> "none", touchPointEventName |-> <<>>,
   conversionEventName |-> <<>>, dashboardId |-> Undefined,
   sheetId |-> Undefined, action |-> PREVIEW, viewName |-> "v1",
   timezone |-> Undefined]

(***************************************************************************)
(* Values exchanged with the collaborators                                 *)
(***************************************************************************)
Uuid(n) == "uuid-" \o ToString(n)

\* uuidv4(): every call returns an identifier never returned before
uuidv4(counter) == Uuid(counter)

NoPipeline == [exists |-> FALSE, projectId |-> "", timezone |-> {}]

\* the pipeline store, read-only for the service: project p1 has a
\* pipeline, whose app a1 has a configured timezone
PipelineStore(projectId) ==
  IF projectId = "p1"
  THEN [exists |-> TRUE, projectId |-> "p1",
        timezone |-> {[appId |-> "a1", timezone |-> "Asia/Shanghai"]}]
  ELSE NoPipeline

\* CreateDashboardResult | undefined
UndefinedResult ==
  [defined |-> FALSE, dashboardEmbedUrl |-> "", sheetId |-> "",
   visualId |-> "", viewName |-> ""]

EmbedUrls == {"", "https://embed"}

ApiFail(message) ==
  [success |-> FALSE, message |-> message, data |-> UndefinedResult]

ApiSuccess(data) ==
  [success |-> TRUE, message |-> "", data |-> data]

NoResponse == [status |-> 0, body |-> ApiFail("")]

Response(status, body) == [status |-> status, body |-> body]

(***************************************************************************)
(* Collaborators of the handler                                            *)
(***************************************************************************)
\* Parameter validator: model type is one of the four supported ones, the
\* time scope is relative or absolute, the required identifiers are
\* non-empty, and a dashboardId comes with a sheetId.  Never throws.
checkAttributionAnalysisParameter(q) ==
  IF q.modelType \notin AttributionModelType
  THEN [success |-> FALSE, message |-> "Unsupported model type."]
  ELSE IF q.timeScope \notin {"relative", "absolute"}
  THEN [success |-> FALSE, message |-> "Inconsistent time scope."]
  ELSE IF \/ q.projectId = ""
          \/ q.appId = ""
          \/ q.touchPointEventName = <<>>
          \/ q.conversionEventName = <<>>
  THEN [success |-> FALSE, message |-> "Required parameter is not provided."]
  ELSE IF q.dashboardId # Undefined /\ q.sheetId = Undefined
  THEN [success |-> FALSE, message |-> "Missing sheetId for dashboardId."]
  ELSE [success |-> TRUE, message |-> "OK"]

\* timezone of the app in the pipeline's app configuration
getTimezoneByAppId(pl, appId) ==
  IF \E t \in pl.timezone : t.appId = appId
  THEN (CHOOSE t \in pl.timezone : t.appId = appId).timezone
  ELSE "UTC"

\* escape of one free-text value: every single quote is doubled
RECURSIVE encodeValue(_)
encodeValue(s) ==
  IF s = <<>> THEN <<>>
  ELSE (IF Head(s) = QUOTE THEN <<QUOTE, QUOTE>> ELSE <<Head(s)>>)
       \o encodeValue(Tail(s))

\* SQL value encoder: escapes the free-text fields of the request
encodeAttributionQueryValueForSql(q) ==
  [q EXCEPT !.touchPointEventName = encodeValue(@),
            !.conversionEventName = encodeValue(@)]

\* The SQL text of a builder is represented by the builder's name and the
\* parameters it was compiled from.
buildSQLForSinglePointModel(params) ==
  [builder |-> "buildSQLForSinglePointModel", params |-> params]

buildSQLForLinearModel(params) ==
  [builder |-> "buildSQLForLinearModel", params |-> params]

buildSQLForPositionModel(params) ==
  [builder |-> "buildSQLForPositionModel", params |-> params]

NoSql == [builder |-> "", params |-> IdleRequest]

\* name of the temporary view, derived from (viewName, action)
getTempResourceName(viewName, action) ==
  IF action = PREVIEW THEN "_tmp_" \o viewName ELSE viewName

\* what createDashboardVisuals may return for a call
AdapterResults(call) ==
  {UndefinedResult} \cup
  {[defined |-> TRUE, dashboardEmbedUrl |-> u, sheetId |-> call.sheetId,
    visualId |-> call.visuals[1].visualId, viewName |-> call.viewName]
     : u \in EmbedUrls}

\* the error-handling middleware that next(error) reaches
errorHandler(error) ==
  Response(500, ApiFail("Unexpected error occurred at server."))

(***************************************************************************)
(* The handler.  A frame carries the local state of one synchronous run    *)
(* of the handler's code: out = "run" while the code goes on, "res" once   *)
(* it has returned a response, "throw" once an exception is on its way to  *)
(* the catch clause.                                                       *)
(***************************************************************************)
NoPending ==
  [sql |-> NoSql, viewName |-> "", visualId |-> "",
   dataset |-> [tableName |-> "", customSql |-> NoSql],
   visualDef |-> [visualId |-> "", viewName |-> ""],
   filters |-> [sheetId |-> "", visualId |-> "", viewName |-> "",
                timeScope |-> ""]]

\* the request body is kept in one place shared by all invocations
NewFrame_SharedQuery(p) ==
  [out |-> "run", query |-> query[1], sheetId |-> sheetId[p],
   pending |-> pending[p], calls |-> builderCalls[p], trace |-> trace[p],
   uuid |-> nextUuid, status |-> 0, body |-> ApiFail(""), error |-> ""]

NewFrame(p) ==
  [out |-> "run", query |-> query[p], sheetId |-> sheetId[p],
   pending |-> pending[p], calls |-> builderCalls[p], trace |-> trace[p],
   uuid |-> nextUuid, status |-> 0, body |-> ApiFail(""), error |-> ""]

Log(f, event) == [f EXCEPT !.trace = Append(@, event)]

\* return res.status(status).json(body)
Respond(f, status, body) ==
  [Log(f, "response") EXCEPT !.out = "res", !.status = status, !.body = body]

Throw(f, error) ==
  [Log(f, "throw") EXCEPT !.out = "throw", !.error = error]

\* the validation result is never looked at
ValidationFailed_Never(checkResult) == FALSE

\* line 37: if (!checkResult.success)
ValidationFailed(checkResult) == ~checkResult.success

\* a failed validation is logged but the handler goes on
Validate_NoReturn(f) == Log(f, "validate")

\* lines 34-40
Validate(f) ==
  LET checkResult == checkAttributionAnalysisParameter(f.query)
      g == Log(f, "validate")
  IN IF ValidationFailed(checkResult)
     THEN Respond(g, 400, ApiFail(checkResult.message))
     ELSE g

\* the missing pipeline is not detected
PipelineMissing_Never(pl) == FALSE

\* line 42: if (!pipeline)
PipelineMissing(pl) == ~pl.exists

\* the missing pipeline is reported as a generation failure
CheckPipeline_GenerationFailure(f, pl) ==
  IF f.out # "run" THEN f
  ELSE IF PipelineMissing(pl)
  THEN Respond(f, 500,
               ApiFail("Failed to create resources, please try again later."))
  ELSE f

\* lines 42-44
CheckPipeline(f, pl) ==
  IF f.out # "run" THEN f
  ELSE IF PipelineMissing(pl) THEN Respond(f, 404, ApiFail("Pipeline not found"))
  ELSE f

\* line 45
ResolveTimezone(f, pl, thr) ==
  IF f.out # "run" THEN f
  ELSE IF thr = "timezone" THEN Throw(f, "Error:getTimezoneByAppId")
  ELSE [Log(f, "getTimezoneByAppId") EXCEPT
          !.query.timezone = getTimezoneByAppId(pl, f.query.appId)]

\* the encoder is applied a second time
EncodeQuery_Twice(f, thr) ==
  IF f.out # "run" THEN f
  ELSE IF thr = "encode" THEN Throw(f, "Error:encodeAttributionQueryValueForSql")
  ELSE [Log(Log(f, "encode"), "encode") EXCEPT
          !.query = encodeAttributionQueryValueForSql(
                      encodeAttributionQueryValueForSql(f.query))]

\* line 47
EncodeQuery(f, thr) ==
  IF f.out # "run" THEN f
  ELSE IF thr = "encode" THEN Throw(f, "Error:encodeAttributionQueryValueForSql")
  ELSE [Log(f, "encode") EXCEPT
          !.query = encodeAttributionQueryValueForSql(f.query)]

\* the sheet of a fresh dashboard is named after the view
DeriveSheetId_FromViewName(f) ==
  IF f.out # "run" THEN f
  ELSE IF f.query.dashboardId = Undefined
  THEN [Log(f, "sheetId") EXCEPT !.sheetId = "sheet-" \o f.query.viewName]
  ELSE IF f.query.sheetId = Undefined
  THEN Respond(f, 400, ApiFail("missing required parameter sheetId"))
  ELSE [Log(f, "sheetId") EXCEPT !.sheetId = f.query.sheetId]

\* a caller-supplied sheetId is used whenever there is one
DeriveSheetId_PrefersCaller(f) ==
  IF f.out # "run" THEN f
  ELSE IF f.query.sheetId # Undefined
  THEN [Log(f, "sheetId") EXCEPT !.sheetId = f.query.sheetId]
  ELSE IF f.query.dashboardId = Undefined
  THEN [Log(f, "sheetId") EXCEPT !.sheetId = uuidv4(f.uuid), !.uuid = @ + 1]
  ELSE Respond(f, 400, ApiFail("missing required parameter sheetId"))

\* lines 49-57
DeriveSheetId(f) ==
  IF f.out # "run" THEN f
  ELSE IF f.query.dashboardId = Undefined
  THEN [Log(f, "sheetId") EXCEPT !.sheetId = uuidv4(f.uuid), !.uuid = @ + 1]
  ELSE IF f.query.sheetId = Undefined
  THEN Respond(f, 400, ApiFail("missing required parameter sheetId"))
  ELSE [Log(f, "sheetId") EXCEPT !.sheetId = f.query.sheetId]

\* schema and database are exchanged
SqlParameters_Swapped(q) ==
  [schemaName |-> q.projectId, dbName |-> q.appId] @@ q

\* { ...query, schemaName: query.appId, dbName: query.projectId }
SqlParameters(q) ==
  [schemaName |-> q.appId, dbName |-> q.projectId] @@ q

\* the temporary view gets a fresh name on every call
BeginModelVisual_FreshViewName(f, visualSql) ==
  LET visualId == uuidv4(f.uuid)
      viewName == getTempResourceName(f.query.viewName \o "_" \o visualId,
                                      f.query.action)
  IN [Log(f, "getDashboardTitleProps") EXCEPT
        !.uuid = @ + 1,
        !.pending = [NoPending EXCEPT
                       !.sql = visualSql,
                       !.viewName = viewName,
                       !.visualId = visualId,
                       !.dataset = [tableName |-> viewName,
                                    customSql |-> visualSql]]]

\* lines 114-136: createModelVisual up to its first await
BeginModelVisual(f, visualSql) ==
  LET viewName == getTempResourceName(f.query.viewName, f.query.action)
      visualId == uuidv4(f.uuid)
  IN [Log(f, "getDashboardTitleProps") EXCEPT
        !.uuid = @ + 1,
        !.pending = [NoPending EXCEPT
                       !.sql = visualSql,
                       !.viewName = viewName,
                       !.visualId = visualId,
                       !.dataset = [tableName |-> viewName,
                                    customSql |-> visualSql]]]

\* lines 80-90
createSinglePointModelVisual(f, thr) ==
  LET sql == buildSQLForSinglePointModel(SqlParameters(f.query))
      g == [Log(f, "build") EXCEPT !.calls = Append(@, sql)]
  IN IF thr = "build" THEN Throw(g, "Error:buildSQLForSinglePointModel")
     ELSE BeginModelVisual(g, sql)

\* lines 92-101
createLinearModelVisual(f, thr) ==
  LET sql == buildSQLForLinearModel(SqlParameters(f.query))
      g == [Log(f, "build") EXCEPT !.calls = Append(@, sql)]
  IN IF thr = "build" THEN Throw(g, "Error:buildSQLForLinearModel")
     ELSE BeginModelVisual(g, sql)

\* lines 103-112
createPositionBasedModelVisual(f, thr) ==
  LET sql == buildSQLForPositionModel(SqlParameters(f.query))
      g == [Log(f, "build") EXCEPT !.calls = Append(@, sql)]
  IN IF thr = "build" THEN Throw(g, "Error:buildSQLForPositionModel")
     ELSE BeginModelVisual(g, sql)

\* the LINEAR and POSITION branches are exchanged
ModelBranch_Swapped(modelType) ==
  IF modelType = "LAST_TOUCH" \/ modelType = "FIRST_TOUCH" THEN "single"
  ELSE IF modelType = "LINEAR" THEN "position"
  ELSE IF modelType = "POSITION" THEN "linear"
  ELSE "invalid"

\* lines 59-68: the branch taken for a model type
ModelBranch(modelType) ==
  IF modelType = "LAST_TOUCH" \/ modelType = "FIRST_TOUCH" THEN "single"
  ELSE IF modelType = "LINEAR" THEN "linear"
  ELSE IF modelType = "POSITION" THEN "position"
  ELSE "invalid"

\* lines 59-68
Dispatch(f, thr) ==
  IF f.out # "run" THEN f
  ELSE LET branch == ModelBranch(f.query.modelType)
       IN IF branch = "single" THEN createSinglePointModelVisual(f, thr)
          ELSE IF branch = "linear" THEN createLinearModelVisual(f, thr)
          ELSE IF branch = "position" THEN createPositionBasedModelVisual(f, thr)
          ELSE Respond(f, 400, ApiFail("Invalid attribution analysis model type"))

\* the empty embed URL is not looked at
GenerationFailed_UndefinedOnly(r, action) == ~r.defined

\* the empty embed URL fails the request whatever the action
GenerationFailed_AnyAction(r, action) ==
  ~r.defined \/ r.dashboardEmbedUrl = ""

\* line 70
GenerationFailed(r, action) ==
  ~r.defined \/ (r.dashboardEmbedUrl = "" /\ action = PREVIEW)

\* lines 70-73
Finish(f, r) ==
  IF GenerationFailed(r, f.query.action)
  THEN Respond(f, 500,
               ApiFail("Failed to create resources, please try again later."))
  ELSE Respond(f, 201, ApiSuccess(r))

\* the values are encoded before the timezone is resolved
AfterPipeline_EncodeFirst(f, pl, thr) ==
  Dispatch(DeriveSheetId(
    ResolveTimezone(EncodeQuery(CheckPipeline(f, pl), thr), pl, thr)), thr)

\* lines 42-68, in the order of the code: pipeline check, timezone,
\* encoder, sheetId, dispatch
AfterPipeline(f, pl, thr) ==
  Dispatch(DeriveSheetId(
    EncodeQuery(ResolveTimezone(CheckPipeline(f, pl), pl, thr), thr)), thr)

\* the exception is swallowed
CatchError_Swallowed(error) == <<>>

\* lines 75-77: the calls of next made for an exception
CatchError(error) == <<error>>

\* the state of process p after the run that ended in frame f; pcNext is
\* the await the handler is suspended at when the run has not ended it
Commit(p, f, pcNext) ==
  /\ UNCHANGED <<request, creditVars, refreshVars, retentionVars>>
  /\ query' = [query EXCEPT ![p] = f.query]
  /\ sheetId' = [sheetId EXCEPT ![p] = f.sheetId]
  /\ pending' = [pending EXCEPT ![p] = f.pending]
  /\ builderCalls' = [builderCalls EXCEPT ![p] = f.calls]
  /\ nextUuid' = f.uuid
  /\ IF f.out = "res"
     THEN /\ pc' = [pc EXCEPT ![p] = "done"]
          /\ trace' = [trace EXCEPT ![p] = f.trace]
          /\ resCalls' = [resCalls EXCEPT
                            ![p] = Append(@, Response(f.status, f.body))]
          /\ callerResponse' = [callerResponse EXCEPT
                                  ![p] = Response(f.status, f.body)]
          /\ UNCHANGED nextCalls
     ELSE IF f.out = "throw"
     THEN /\ pc' = [pc EXCEPT ![p] = "done"]
          /\ trace' = [trace EXCEPT
                         ![p] = f.trace \o [i \in 1..Len(CatchError(f.error))
                                              |-> "next"]]
          /\ nextCalls' = [nextCalls EXCEPT ![p] = @ \o CatchError(f.error)]
          /\ callerResponse' =
               IF CatchError(f.error) = <<>> THEN callerResponse
               ELSE [callerResponse EXCEPT
                       ![p] = errorHandler(Head(CatchError(f.error)))]
          /\ UNCHANGED resCalls
     ELSE /\ pc' = [pc EXCEPT ![p] = pcNext]
          /\ trace' = [trace EXCEPT ![p] = f.trace]
          /\ UNCHANGED <<resCalls, nextCalls, callerResponse>>

(***************************************************************************)
(* Actions: the code between two awaits                                    *)
(***************************************************************************)
\* lines 32-41: validation, then the pipeline lookup is issued
Start(p) ==
  /\ pc[p] = "start"
  /\ LET f == Validate(NewFrame(p))
     IN Commit(p, IF f.out = "run" THEN Log(f, "getPipelineByProjectId") ELSE f,
               "awaitPipeline")
  /\ UNCHANGED <<pipeline, result, adapterCalls, tempViews>>

\* lines 41-68 and 80-136: the lookup settles; the handler runs up to the
\* first await of createModelVisual
PipelineReturned(p) ==
  /\ pc[p] = "awaitPipeline"
  /\ \E thr \in {"none", "lookup", "timezone", "encode", "build"} :
       LET pl == IF thr = "lookup" THEN NoPipeline
                 ELSE PipelineStore(query[p].projectId)
           f == IF thr = "lookup"
                THEN Throw(NewFrame(p), "Error:getPipelineByProjectId")
                ELSE AfterPipeline(NewFrame(p), pl, thr)
       IN /\ pipeline' = [pipeline EXCEPT ![p] = pl]
          /\ Commit(p, f, "awaitTitleProps")
  /\ UNCHANGED <<result, adapterCalls, tempViews>>

\* lines 136-139: getDashboardTitleProps settles; the visual definition is
\* made and getVisualRelatedDefs is issued
TitlePropsReturned(p) ==
  /\ pc[p] = "awaitTitleProps"
  /\ \E thr \in {"none", "title"} :
       LET f0 == NewFrame(p)
           f1 == IF thr = "title" THEN Throw(f0, "Error:getDashboardTitleProps")
                 ELSE [Log(f0, "getVisualRelatedDefs") EXCEPT
                         !.pending.visualDef =
                            [visualId |-> f0.pending.visualId,
                             viewName |-> f0.pending.viewName]]
       IN Commit(p, f1, "awaitVisualDefs")
  /\ UNCHANGED <<pipeline, result, adapterCalls, tempViews>>

\* lines 139-161: getVisualRelatedDefs settles; the reporting adapter is
\* called with one dataset and one visual
VisualDefsReturned(p) ==
  /\ pc[p] = "awaitVisualDefs"
  /\ \E thr \in {"none", "defs"} :
       LET f0 == NewFrame(p)
           filters == [sheetId |-> sheetId[p],
                       visualId |-> f0.pending.visualId,
                       viewName |-> f0.pending.viewName,
                       timeScope |-> query[p].timeScope]
           visualProps == [sheetId |-> sheetId[p],
                           visualId |-> f0.pending.visualId,
                           visual |-> f0.pending.visualDef,
                           filters |-> filters]
           call == [sheetId |-> sheetId[p],
                    viewName |-> f0.pending.viewName,
                    query |-> query[p],
                    pipeline |-> pipeline[p],
                    datasets |-> <<f0.pending.dataset>>,
                    visuals |-> <<visualProps>>]
       IN IF thr = "defs"
          THEN /\ Commit(p, Throw(f0, "Error:getVisualRelatedDefs"), "done")
               /\ UNCHANGED adapterCalls
          ELSE /\ Commit(p, [Log(f0, "createDashboardVisuals") EXCEPT
                               !.pending.filters = filters],
                         "awaitAdapter")
               /\ adapterCalls' = [adapterCalls EXCEPT ![p] = Append(@, call)]
  /\ UNCHANGED <<pipeline, result, tempViews>>

\* lines 61-73: createDashboardVisuals settles.  A call that fails may or
\* may not have created the temporary view already.
AdapterReturned(p) ==
  /\ pc[p] = "awaitAdapter"
  /\ LET call == adapterCalls[p][Len(adapterCalls[p])]
     IN \/ \E created \in BOOLEAN :
             /\ Commit(p, Throw(NewFrame(p), "Error:createDashboardVisuals"),
                       "done")
             /\ tempViews' = IF created THEN tempViews \cup {call.viewName}
                             ELSE tempViews
             /\ UNCHANGED result
        \/ \E r \in AdapterResults(call), created \in BOOLEAN :
             /\ r.defined => created
             /\ result' = [result EXCEPT ![p] = r]
             /\ tempViews' = IF created THEN tempViews \cup {call.viewName}
                             ELSE tempViews
             /\ Commit(p, Finish(NewFrame(p), r), "done")
  /\ UNCHANGED <<pipeline, adapterCalls>>

(***************************************************************************)
(* Specification: one request, any body                                    *)
(***************************************************************************)
\* the handler is invoked for the processes of active, with the bodies reqs
HandlerInit(reqs, active) ==
  /\ request = reqs
  /\ query = reqs
  /\ pc = [p \in Procs |-> IF p \in active THEN "start" ELSE "idle"]
  /\ pipeline = [p \in Procs |-> NoPipeline]
  /\ sheetId = [p \in Procs |-> Undefined]
  /\ pending = [p \in Procs |-> NoPending]
  /\ result = [p \in Procs |-> UndefinedResult]
  /\ trace = [p \in Procs |-> <<>>]
  /\ builderCalls = [p \in Procs |-> <<>>]
  /\ resCalls = [p \in Procs |-> <<>>]
  /\ nextCalls = [p \in Procs |-> <<>>]
  /\ callerResponse = [p \in Procs |-> NoResponse]
  /\ adapterCalls = [p \in Procs |-> <<>>]
  /\ nextUuid = 1
  /\ tempViews = {}

\* no attribution query is run
CreditIdle ==
  /\ phase = "idle"
  /\ rows = <<>>
  /\ window = [start |-> 0, end |-> 0]
  /\ creditModel = "LINEAR"
  /\ credits = <<>>
  /\ runs = {}

\* the refresh lambda is not invoked and the retention view is not queried
AnalyticsIdle ==
  /\ refreshPc = "idle"
  /\ refreshEvents = <<>>
  /\ sqlStatements = <<>>
  /\ executed = <<>>
  /\ executeResults = <<>>
  /\ refreshOutcomes = <<>>
  /\ viewPhase = "idle"
  /\ baseView = <<>>
  /\ retentionView = {}

Init ==
  /\ \E r \in Requests :
       HandlerInit([p \in Procs |-> IF p = 1 THEN r ELSE IdleRequest], {1})
  /\ CreditIdle
  /\ AnalyticsIdle

createAttributionAnalysisVisual(p) ==
  \/ Start(p)
  \/ PipelineReturned(p)
  \/ TitlePropsReturned(p)
  \/ VisualDefsReturned(p)
  \/ AdapterReturned(p)

Next == \E p \in Procs : createAttributionAnalysisVisual(p)

Spec == Init /\ [][Next]_vars

(***************************************************************************)
(* Specification: two requests in flight at once, their awaits interleaved *)
(***************************************************************************)
ConcRequests ==
  {r \in Requests :
     /\ r.projectId \in {"p1", "p2"}
     /\ r.appId \in {"a1", "a2"}
     /\ r.modelType = "LAST_TOUCH"
     /\ r.timeScope = "relative"
     /\ r.touchPointEventName \in {<<"a">>, <<QUOTE>>}
     /\ r.conversionEventName = <<"c">>
     /\ r.dashboardId = Undefined
     /\ r.sheetId = Undefined}

InitConc ==
  /\ \E reqs \in [Procs -> ConcRequests] : HandlerInit(reqs, Procs)
  /\ CreditIdle
  /\ AnalyticsIdle

SpecConc == InitConc /\ [][Next]_vars

(***************************************************************************)
(* Properties                                                              *)
(***************************************************************************)
Events(p) == {trace[p][i] : i \in DOMAIN trace[p]}

Count(seq, e) == Cardinality({i \in DOMAIN seq : seq[i] = e})

Position(seq, e) == CHOOSE i \in DOMAIN seq : seq[i] = e

Started(p) == pc[p] \notin {"idle", "start"}

Done(p) == pc[p] = "done"

Valid(r) == checkAttributionAnalysisParameter(r).success

NoLaterStep(p) ==
  /\ Events(p) \cap {"getPipelineByProjectId", "getTimezoneByAppId", "encode",
                     "sheetId", "build", "createDashboardVisuals"} = {}
  /\ builderCalls[p] = <<>>
  /\ adapterCalls[p] = <<>>
  /\ query[p] = request[p]

GenerationFailure ==
  Response(500, ApiFail("Failed to create resources, please try again later."))

\* the adapter has returned to the handler without throwing
AdapterAnswered(p) ==
  /\ Done(p)
  /\ "createDashboardVisuals" \in Events(p)
  /\ "throw" \notin Events(p)

\* C1: a request the validator reports as invalid is answered 400 with the
\* validator's message, and no later step (pipeline lookup, timezone,
\* encoding, SQL builder, reporting adapter) happens.
C1_InvalidRequestRejected ==
  \A p \in Procs :
    (Started(p) /\ ~Valid(request[p])) =>
      /\ Done(p)
      /\ resCalls[p] =
           <<Response(400,
               ApiFail(checkAttributionAnalysisParameter(request[p]).message))>>
      /\ nextCalls[p] = <<>>
      /\ trace[p] = <<"validate", "response">>
      /\ NoLaterStep(p)

C1_Witness ==
  \E p \in Procs :
    /\ Done(p)
    /\ ~Valid(request[p])
    /\ request[p].timeScope = "mixed"
    /\ callerResponse[p].status = 400

\* C2: a valid request whose project has no pipeline is answered 404, and
\* no encoder, SQL builder or reporting adapter is invoked.
C2_PipelineNotFound ==
  \A p \in Procs :
    (/\ Done(p)
     /\ Valid(request[p])
     /\ "throw" \notin Events(p)
     /\ ~PipelineStore(request[p].projectId).exists) =>
      /\ resCalls[p] = <<Response(404, ApiFail("Pipeline not found"))>>
      /\ nextCalls[p] = <<>>
      /\ Events(p) \cap {"getTimezoneByAppId", "encode", "sheetId", "build",
                         "createDashboardVisuals"} = {}
      /\ builderCalls[p] = <<>>
      /\ adapterCalls[p] = <<>>

C2_Witness ==
  \E p \in Procs :
    /\ Done(p)
    /\ Valid(request[p])
    /\ request[p].projectId = "p2"
    /\ callerResponse[p].status = 404

\* C3: a request with dashboardId set and sheetId unset is answered 400 and
\* no SQL builder is invoked, whatever its other fields and whether or not
\* the pipeline exists.
C3_DashboardWithoutSheet ==
  \A p \in Procs :
    (/\ Started(p)
     /\ request[p].dashboardId # Undefined
     /\ request[p].sheetId = Undefined) =>
      /\ Done(p)
      /\ Len(resCalls[p]) = 1
      /\ resCalls[p][1].status = 400
      /\ builderCalls[p] = <<>>
      /\ "build" \notin Events(p)

C3_Witness ==
  \E p \in Procs :
    /\ Done(p)
    /\ request[p].dashboardId = "d1"
    /\ request[p].sheetId = Undefined
    /\ request[p].projectId = "p2"
    /\ request[p].modelType = "LINEAR"
    /\ request[p].timeScope = "relative"
    /\ callerResponse[p].status = 400

\* C4: a request whose modelType is none of FIRST_TOUCH, LAST_TOUCH, LINEAR,
\* POSITION is answered 400, and neither a SQL builder nor the reporting
\* adapter is invoked.
C4_UnsupportedModelType ==
  \A p \in Procs :
    (Started(p) /\ request[p].modelType \notin AttributionModelType) =>
      /\ Done(p)
      /\ Len(resCalls[p]) = 1
      /\ resCalls[p][1].status = 400
      /\ ~resCalls[p][1].body.success
      /\ builderCalls[p] = <<>>
      /\ adapterCalls[p] = <<>>

C4_Witness ==
  \E p \in Procs :
    /\ Done(p)
    /\ request[p].modelType = "UNKNOWN"
    /\ request[p].projectId = "p1"
    /\ request[p].appId = "a1"
    /\ request[p].timeScope = "absolute"
    /\ callerResponse[p].status = 400

BuilderOf(modelType) ==
  CASE modelType \in {"FIRST_TOUCH", "LAST_TOUCH"} -> "buildSQLForSinglePointModel"
    [] modelType = "LINEAR" -> "buildSQLForLinearModel"
    [] modelType = "POSITION" -> "buildSQLForPositionModel"
    [] OTHER -> "none"

\* C5: a request that reaches dispatch invokes exactly one SQL builder, the
\* one of its model type.
C5_OneMatchingBuilder ==
  \A p \in Procs :
    /\ Len(builderCalls[p]) <= 1
    /\ ("sheetId" \in Events(p)) =>
         /\ Len(builderCalls[p]) = 1
         /\ builderCalls[p][1].builder = BuilderOf(request[p].modelType)
         /\ Count(trace[p], "build") = 1

C5_Witness ==
  \E p \in Procs :
    /\ "sheetId" \in Events(p)
    /\ request[p].modelType = "POSITION"
    /\ builderCalls[p] # <<>>
    /\ builderCalls[p][1].builder = "buildSQLForPositionModel"

\* C6: whenever a SQL builder is invoked the encoder has been applied to the
\* request exactly once, before the builder call: the builder's free-text
\* parameters are the request's, escaped once.
C6_EncodedOnceBeforeBuild ==
  \A p \in Procs :
    (builderCalls[p] # <<>>) =>
      /\ Count(trace[p], "encode") = 1
      /\ "build" \in Events(p)
      /\ Position(trace[p], "encode") < Position(trace[p], "build")
      /\ \A i \in DOMAIN builderCalls[p] :
           /\ builderCalls[p][i].params.touchPointEventName =
                encodeValue(request[p].touchPointEventName)
           /\ builderCalls[p][i].params.conversionEventName =
                encodeValue(request[p].conversionEventName)

C6_Witness ==
  \E p \in Procs :
    /\ builderCalls[p] # <<>>
    /\ request[p].touchPointEventName = <<"a", QUOTE>>
    /\ builderCalls[p][1].params.touchPointEventName = <<"a", QUOTE, QUOTE>>

\* C7: when the action is PREVIEW and the adapter returns a result whose
\* dashboardEmbedUrl is empty, the response is 500 'Failed to create
\* resources, please try again later.', never 201.
C7_EmptyPreviewFails ==
  \A p \in Procs :
    (/\ AdapterAnswered(p)
     /\ request[p].action = PREVIEW
     /\ result[p].defined
     /\ result[p].dashboardEmbedUrl = "") =>
      /\ resCalls[p] = <<GenerationFailure>>
      /\ callerResponse[p].status # 201

C7_Witness ==
  \E p \in Procs :
    /\ AdapterAnswered(p)
    /\ request[p].action = PREVIEW
    /\ result[p].defined
    /\ result[p].dashboardEmbedUrl = ""
    /\ callerResponse[p].status = 500

\* C8 as stated: whenever the adapter returns without throwing and the
\* embed handle is non-empty or the action is not PREVIEW, the response is
\* 201 with the artifact the adapter returned.
C8_Original ==
  \A p \in Procs :
    (/\ AdapterAnswered(p)
     /\ (result[p].dashboardEmbedUrl # "" \/ request[p].action # PREVIEW)) =>
      resCalls[p] = <<Response(201, ApiSuccess(result[p]))>>

\* C8: whenever the adapter returns a result other than undefined without
\* throwing, and the embed handle is non-empty or the action is not
\* PREVIEW, the response is 201 and its body carries that result unchanged.
C8_DefinedResultSucceeds ==
  \A p \in Procs :
    (/\ AdapterAnswered(p)
     /\ result[p].defined
     /\ (result[p].dashboardEmbedUrl # "" \/ request[p].action # PREVIEW)) =>
      /\ resCalls[p] = <<Response(201, ApiSuccess(result[p]))>>
      /\ nextCalls[p] = <<>>
      /\ result[p] \in AdapterResults(adapterCalls[p][1])

C8_Witness ==
  \E p \in Procs :
    /\ AdapterAnswered(p)
    /\ result[p].defined
    /\ result[p].dashboardEmbedUrl = ""
    /\ request[p].action = PUBLISH
    /\ callerResponse[p].status = 201
    /\ callerResponse[p].body.data = result[p]

GenericServerError ==
  Response(500, ApiFail("Unexpected error occurred at server."))

\* C9: an exception thrown at any step is caught in the handler and handed
\* to next exactly once, the handler sends no response of its own, and the
\* caller gets the generic server error 500, which carries no SQL text and
\* no artifact.
C9_ExceptionsBecomeServerError ==
  \A p \in Procs :
    ("throw" \in Events(p)) =>
      /\ Done(p)
      /\ Count(trace[p], "throw") = 1
      /\ Len(nextCalls[p]) = 1
      /\ resCalls[p] = <<>>
      /\ callerResponse[p] = GenericServerError
      /\ callerResponse[p].body.data = UndefinedResult

C9_Witness ==
  \E p \in Procs :
    /\ Done(p)
    /\ nextCalls[p] = <<"Error:createDashboardVisuals">>
    /\ callerResponse[p].status = 500

GeneratedUuids == {Uuid(n) : n \in 1..(nextUuid - 1)}

\* C10: the sheetId handed on is a newly generated identifier when the
\* request has no dashboardId (a caller-supplied sheetId is not used), and
\* the caller-supplied sheetId, unchanged, when it has a dashboardId.
C10_SheetIdDerivation ==
  \A p \in Procs :
    ("sheetId" \in Events(p)) =>
      /\ IF request[p].dashboardId = Undefined
         THEN /\ sheetId[p] \in GeneratedUuids
              /\ sheetId[p] # request[p].sheetId
              /\ sheetId[p] # pending[p].visualId
         ELSE sheetId[p] = request[p].sheetId
      /\ \A i \in DOMAIN adapterCalls[p] :
           /\ adapterCalls[p][i].sheetId = sheetId[p]
           /\ adapterCalls[p][i].visuals[1].sheetId = sheetId[p]

C10_Witness ==
  \E p \in Procs :
    /\ adapterCalls[p] # <<>>
    /\ request[p].dashboardId = Undefined
    /\ request[p].sheetId = "s1"
    /\ adapterCalls[p][1].sheetId = Uuid(1)

IsPrefix(a, b) == Len(a) <= Len(b) /\ SubSeq(b, 1, Len(a)) = a

\* the steps of a request that no step ends early, in the order of the code
StepOrder ==
  <<"validate", "getPipelineByProjectId", "getTimezoneByAppId", "encode",
    "sheetId", "build", "getDashboardTitleProps", "getVisualRelatedDefs",
    "createDashboardVisuals">>

\* the steps of the trace, without the ending of a finished request
Steps(p) ==
  IF Done(p) /\ trace[p][Len(trace[p])] = "response"
  THEN SubSeq(trace[p], 1, Len(trace[p]) - 1)
  ELSE IF Done(p) THEN SubSeq(trace[p], 1, Len(trace[p]) - 2)
  ELSE trace[p]

\* C11: within one request the steps happen in the order validate, pipeline
\* lookup, timezone resolution, encoding, sheetId derivation, SQL build,
\* adapter call, response; while an asynchronous call is pending no later
\* step has happened, and the response is the last step.
C11_StepsInOrder ==
  \A p \in Procs :
    /\ IsPrefix(Steps(p), StepOrder)
    /\ Done(p) =>
         \/ SubSeq(trace[p], Len(Steps(p)) + 1, Len(trace[p])) = <<"response">>
         \/ SubSeq(trace[p], Len(Steps(p)) + 1, Len(trace[p])) = <<"throw", "next">>
    /\ ~Done(p) => Events(p) \cap {"response", "throw", "next"} = {}
    /\ pc[p] = "awaitPipeline" =>
         trace[p] = SubSeq(StepOrder, 1, 2)
    /\ pc[p] = "awaitTitleProps" => trace[p] = SubSeq(StepOrder, 1, 7)
    /\ pc[p] = "awaitVisualDefs" => trace[p] = SubSeq(StepOrder, 1, 8)
    /\ pc[p] = "awaitAdapter" => trace[p] = StepOrder

C11_Witness ==
  \E p \in Procs :
    /\ Done(p)
    /\ trace[p] = StepOrder \o <<"response">>
    /\ callerResponse[p].status = 201

\* C15: the generation-failure response is produced only after the
\* reporting adapter has been invoked for the request, the adapter call is
\* the last call the handler makes (no cleanup follows), and every 400 and
\* 404 response is produced before any adapter call.
C15_FailureAfterAdapterOnly ==
  \A p \in Procs :
    /\ (resCalls[p] # <<>> /\ resCalls[p][1] = GenerationFailure) =>
         /\ Len(adapterCalls[p]) = 1
         /\ trace[p] = StepOrder \o <<"response">>
    /\ (resCalls[p] # <<>> /\ resCalls[p][1].status \in {400, 404}) =>
         /\ adapterCalls[p] = <<>>
         /\ "createDashboardVisuals" \notin Events(p)

\* a generation failure whose temporary view exists at the provider
C15_Witness ==
  \E p \in Procs :
    /\ Done(p)
    /\ resCalls[p] = <<GenerationFailure>>
    /\ adapterCalls[p][1].viewName \in tempViews

\* C20: the parameters a builder receives are the request with the timezone
\* getTimezoneByAppId returned for (pipeline, appId), encoded, extended with
\* schemaName = appId and dbName = projectId; the timezone is resolved
\* before the encoding.
C20_BuilderParameters ==
  \A p \in Procs :
    \A i \in DOMAIN builderCalls[p] :
      LET r == request[p]
          params == builderCalls[p][i].params
      IN /\ params =
              [projectId |-> r.projectId,
               appId |-> r.appId,
               modelType |-> r.modelType,
               timeScope |-> r.timeScope,
               touchPointEventName |-> encodeValue(r.touchPointEventName),
               conversionEventName |-> encodeValue(r.conversionEventName),
               dashboardId |-> r.dashboardId,
               sheetId |-> r.sheetId,
               action |-> r.action,
               viewName |-> r.viewName,
               timezone |-> getTimezoneByAppId(pipeline[p], r.appId),
               schemaName |-> r.appId,
               dbName |-> r.projectId]
         /\ pipeline[p] = PipelineStore(r.projectId)
         /\ Position(trace[p], "getTimezoneByAppId")
              < Position(trace[p], "encode")

C20_Witness ==
  \E p \in Procs :
    /\ builderCalls[p] # <<>>
    /\ request[p].appId = "a2"
    /\ request[p].touchPointEventName = <<QUOTE>>
    /\ builderCalls[p][1].params.timezone = "UTC"
    /\ builderCalls[p][1].params.schemaName = "a2"
    /\ builderCalls[p][1].params.dbName = "p1"

\* the exception process p has handed to next, "" when there is none
ErrorOf(p) == IF nextCalls[p] = <<>> THEN "" ELSE nextCalls[p][1]

\* the response of a request r that runs alone, when its collaborators
\* answer with the exception error (or none) and the adapter result res
SoloResponse(r, error, res) ==
  IF ~Valid(r)
  THEN Response(400, ApiFail(checkAttributionAnalysisParameter(r).message))
  ELSE IF error = "Error:getPipelineByProjectId" THEN GenericServerError
  ELSE IF ~PipelineStore(r.projectId).exists
  THEN Response(404, ApiFail("Pipeline not found"))
  ELSE IF error # "" THEN GenericServerError
  ELSE IF ~res.defined \/ (res.dashboardEmbedUrl = "" /\ r.action = PREVIEW)
  THEN GenerationFailure
  ELSE Response(201, ApiSuccess(res))

\* C12: with the awaits of concurrent requests interleaved in any order,
\* the response of each request is the one it gets when run alone with the
\* same collaborator answers, and the timezone, encoded values, sheetId and
\* SQL a request uses are its own.
C12_RequestsIndependent ==
  \A p \in Procs :
    /\ Done(p) =>
         callerResponse[p] = SoloResponse(request[p], ErrorOf(p), result[p])
    /\ \A i \in DOMAIN builderCalls[p] :
         LET params == builderCalls[p][i].params
         IN /\ params.timezone =
                 getTimezoneByAppId(PipelineStore(request[p].projectId),
                                    request[p].appId)
            /\ params.touchPointEventName =
                 encodeValue(request[p].touchPointEventName)
            /\ params.schemaName = request[p].appId
            /\ params.action = request[p].action
            /\ params.viewName = request[p].viewName
    /\ \A i \in DOMAIN adapterCalls[p] :
         /\ adapterCalls[p][i].datasets[1].customSql = builderCalls[p][1]
         /\ adapterCalls[p][i].sheetId = sheetId[p]
         /\ adapterCalls[p][i].query.appId = request[p].appId
         /\ adapterCalls[p][i].viewName =
              getTempResourceName(request[p].viewName, request[p].action)

\* request 2 has been answered while request 1, whose identifiers were
\* generated first, still waits for the adapter
C12_Witness ==
  /\ pc[1] = "awaitAdapter"
  /\ sheetId[1] = Uuid(1)
  /\ Done(2)
  /\ callerResponse[2].status = 201
  /\ request[1].appId # request[2].appId
  /\ request[1].action # request[2].action
  /\ request[1].touchPointEventName # request[2].touchPointEventName

Called(p) == adapterCalls[p] # <<>>

\* C13: the temporary view name is a function of (viewName, action): two
\* requests with the same viewName and action hand the adapter the same
\* view name, so a repeated PREVIEW targets the same view and the set of
\* temporary views does not grow with it.
C13_ViewNameDeterministic ==
  /\ \A p, q \in Procs :
       (/\ Called(p)
        /\ Called(q)
        /\ request[p].viewName = request[q].viewName
        /\ request[p].action = request[q].action) =>
         /\ adapterCalls[p][1].viewName = adapterCalls[q][1].viewName
         /\ adapterCalls[p][1].datasets[1].tableName =
              adapterCalls[q][1].datasets[1].tableName
  /\ Cardinality(tempViews) <=
       Cardinality({<<request[p].viewName, request[p].action>> :
                      p \in {q \in Procs : Called(q)}})

C13_Witness ==
  /\ \A p \in Procs :
       /\ Done(p)
       /\ request[p].action = PREVIEW
       /\ request[p].viewName = "v1"
       /\ callerResponse[p].status = 201
  /\ request[1] = request[2]
  /\ Cardinality(tempViews) = 1

\* the identifiers process p hands to the adapter
IdsOf(p) ==
  {adapterCalls[p][1].sheetId, adapterCalls[p][1].visuals[1].visualId}

\* C14: requests without dashboardId are not idempotent: each call hands
\* the adapter a sheetId and a visualId that no other call has used.
C14_FreshIdentifiers ==
  \A p, q \in Procs :
    (/\ p # q
     /\ Called(p)
     /\ Called(q)
     /\ request[p].dashboardId = Undefined
     /\ request[q].dashboardId = Undefined) =>
      /\ IdsOf(p) \cap IdsOf(q) = {}
      /\ Cardinality(IdsOf(p)) = 2
      /\ adapterCalls[p][1].sheetId # adapterCalls[q][1].sheetId
      /\ adapterCalls[p][1].visuals[1].visualId #
           adapterCalls[q][1].visuals[1].visualId

\* two identical publish requests, the second one started after the first
\* generated its identifiers
C14_Witness ==
  /\ request[1] = request[2]
  /\ request[1].action = PUBLISH
  /\ \A p \in Procs : Done(p) /\ callerResponse[p].status = 201
  /\ sheetId[1] = Uuid(1)
  /\ sheetId[2] = Uuid(3)

(***************************************************************************)
(* The attribution query.  What the SQL of the three builders computes is  *)
(* modelled on the event rows of one user: a row is a touch event or a     *)
(* conversion event with a timestamp, and the index of a row is its        *)
(* secondary key (the row id).                                             *)
(***************************************************************************)
\* number of event rows of the user
MaxRows == 4

\* largest event timestamp
MaxTime == 2

handlerVars ==
  <<pc, request, query, pipeline, sheetId, pending, result, trace,
    builderCalls, resCalls, nextCalls, callerResponse,
    nextUuid, adapterCalls, tempViews>>

EventRows == [kind : {"touch", "conversion"}, ts : 0..MaxTime]

\* the requested time scope: it ends at the largest timestamp and starts
\* at the first or at the second one
Windows == {[start |-> s, end |-> MaxTime] : s \in {0, 1}}

Orders == {"forward", "reverse"}

Frac(n, d) == <<n, d>>

FracAdd(a, b) == <<a[1] * b[2] + b[1] * a[2], a[2] * b[2]>>

FracEq(a, b) == a[1] * b[2] = b[1] * a[2]

InWindow(rs, w, i) == w.start <= rs[i].ts /\ rs[i].ts <= w.end

\* the conversion events inside the window
Conversions(rs, w) ==
  {c \in DOMAIN rs : rs[c].kind = "conversion" /\ InWindow(rs, w, c)}

\* touch events before the conversion, the conversion's timestamp included
Qualifying_AtOrBefore(rs, w, c) ==
  {t \in DOMAIN rs :
     rs[t].kind = "touch" /\ InWindow(rs, w, t) /\ rs[t].ts <= rs[c].ts}

\* the touch events inside the window strictly before conversion c
Qualifying(rs, w, c) ==
  {t \in DOMAIN rs :
     rs[t].kind = "touch" /\ InWindow(rs, w, t) /\ rs[t].ts < rs[c].ts}

\* rows are ordered by timestamp only
Before_NoTieBreak(rs, t, u) == rs[t].ts < rs[u].ts

\* the order of the rows: by timestamp, equal timestamps by row id
Before(rs, t, u) ==
  rs[t].ts < rs[u].ts \/ (rs[t].ts = rs[u].ts /\ t < u)

\* position of touch t among the qualifying touches of conversion c
Rank(rs, w, c, t) ==
  1 + Cardinality({u \in Qualifying(rs, w, c) : Before(rs, u, t)})

\* single-point model: all credit to the first (FIRST_TOUCH) or to the last
\* (LAST_TOUCH) of the k qualifying touches
SinglePointCredit(modelType, k, rank) ==
  IF \/ modelType = "FIRST_TOUCH" /\ rank = 1
     \/ modelType = "LAST_TOUCH" /\ rank = k
  THEN Frac(1, 1) ELSE Frac(0, 1)

\* every touch gets the full credit
LinearCredit_Full(k) == Frac(1, 1)

\* linear model: equal split among the k qualifying touches
LinearCredit(k) == Frac(1, k)

\* the case of exactly two touches is not treated apart
PositionCredit_NoTwoTouchCase(k, rank) ==
  IF k = 1 THEN Frac(1, 1)
  ELSE IF rank = 1 \/ rank = k THEN Frac(4, 10)
  ELSE Frac(2, 10 * (k - 2))

\* position-based model: 40% first, 40% last, 20% shared by the middle
\* touches; one touch gets 100%, two touches 50% each
PositionCredit(k, rank) ==
  IF k = 1 THEN Frac(1, 1)
  ELSE IF k = 2 THEN Frac(1, 2)
  ELSE IF rank = 1 \/ rank = k THEN Frac(4, 10)
  ELSE Frac(2, 10 * (k - 2))

Credit(modelType, k, rank) ==
  IF modelType \in {"FIRST_TOUCH", "LAST_TOUCH"}
  THEN SinglePointCredit(modelType, k, rank)
  ELSE IF modelType = "LINEAR" THEN LinearCredit(k)
  ELSE PositionCredit(k, rank)

\* the credit of every (conversion, qualifying touch) pair
CreditsOf(rs, w, modelType) ==
  [c \in Conversions(rs, w) |->
     [t \in Qualifying(rs, w, c) |->
        Credit(modelType, Cardinality(Qualifying(rs, w, c)),
               Rank(rs, w, c, t))]]

\* a candidate replaces the best one only on a strictly better timestamp
Better_TimestampOnly(rs, modelType, i, best) ==
  IF modelType = "FIRST_TOUCH" THEN rs[i].ts < rs[best].ts
  ELSE rs[best].ts < rs[i].ts

\* candidate i is to be selected rather than best
Better(rs, modelType, i, best) ==
  IF modelType = "FIRST_TOUCH" THEN Before(rs, i, best)
  ELSE Before(rs, best, i)

\* the touch selected for conversion c when the rows are enumerated in the
\* given order; 0 when there is none
RECURSIVE SelectFold(_, _, _, _, _, _)
SelectFold(order, rs, w, c, modelType, best) ==
  IF order = <<>> THEN best
  ELSE LET i == Head(order)
           chosen == IF /\ i \in Qualifying(rs, w, c)
                        /\ (best = 0 \/ Better(rs, modelType, i, best))
                     THEN i ELSE best
       IN SelectFold(Tail(order), rs, w, c, modelType, chosen)

Enumeration(rs, o) ==
  IF o = "forward" THEN [i \in 1..Len(rs) |-> i]
  ELSE [i \in 1..Len(rs) |-> Len(rs) + 1 - i]

SelectionOf(rs, w, modelType, o) ==
  [c \in Conversions(rs, w) |->
     SelectFold(Enumeration(rs, o), rs, w, c, modelType, 0)]

\* the query of the request's model is run over the rows
RunAttributionQuery ==
  /\ phase = "input"
  /\ phase' = "computed"
  /\ credits' = CreditsOf(rows, window, creditModel)
  /\ UNCHANGED <<handlerVars, rows, window, creditModel, runs>>
  /\ UNCHANGED <<refreshVars, retentionVars>>

\* the single-point selection is run with the rows enumerated in one order
RunSinglePointSelection ==
  /\ phase = "computed"
  /\ creditModel \in {"FIRST_TOUCH", "LAST_TOUCH"}
  /\ \E o \in Orders :
       /\ \A r \in runs : r.order # o
       /\ runs' = runs \cup
            {[order |-> o,
              selection |-> SelectionOf(rows, window, creditModel, o)]}
  /\ UNCHANGED <<handlerVars, phase, rows, window, creditModel, credits>>
  /\ UNCHANGED <<refreshVars, retentionVars>>

InitCredit ==
  /\ HandlerInit([p \in Procs |-> IdleRequest], {})
  /\ phase = "input"
  /\ rows \in [1..MaxRows -> EventRows]
  /\ window \in Windows
  /\ creditModel \in AttributionModelType
  /\ credits = <<>>
  /\ runs = {}
  /\ AnalyticsIdle

NextCredit == RunAttributionQuery \/ RunSinglePointSelection

SpecCredit == InitCredit /\ [][NextCredit]_vars

RECURSIVE SumOver(_, _)
SumOver(f, S) ==
  IF S = {} THEN Frac(0, 1)
  ELSE LET x == CHOOSE y \in S : TRUE
       IN FracAdd(f[x], SumOver(f, S \ {x}))

RECURSIVE TotalOver(_, _)
TotalOver(cr, C) ==
  IF C = {} THEN Frac(0, 1)
  ELSE LET c == CHOOSE y \in C : TRUE
       IN FracAdd(SumOver(cr[c], DOMAIN cr[c]), TotalOver(cr, C \ {c}))

Computed(modelTypes) == phase = "computed" /\ creditModel \in modelTypes

\* the touch events of the window strictly before conversion c
TouchesBefore(c) ==
  {t \in DOMAIN rows :
     /\ rows[t].kind = "touch"
     /\ window.start <= rows[t].ts
     /\ rows[t].ts <= window.end
     /\ rows[t].ts < rows[c].ts}

\* t is the first (last) of the touches Q in the order of timestamps and,
\* for equal timestamps, row ids
IsFirst(t, Q) ==
  \A u \in Q \ {t} :
    rows[t].ts < rows[u].ts \/ (rows[t].ts = rows[u].ts /\ t < u)

IsLast(t, Q) ==
  \A u \in Q \ {t} :
    rows[u].ts < rows[t].ts \/ (rows[t].ts = rows[u].ts /\ u < t)

C17_LinearCredit ==
  Computed({"LINEAR"}) =>
    \A c \in DOMAIN credits :
      LET Q == DOMAIN credits[c]
          N == Cardinality(TouchesBefore(c))
      IN /\ Q = TouchesBefore(c)
         /\ \A t \in Q : FracEq(credits[c][t], Frac(1, N))
         /\ N >= 1 => FracEq(SumOver(credits[c], Q), Frac(1, 1))

\* two touches share a conversion while a touch at the conversion's
\* timestamp gets nothing
C17_Witness ==
  /\ Computed({"LINEAR"})
  /\ \E c \in DOMAIN credits :
       /\ Cardinality(DOMAIN credits[c]) = 2
       /\ \A t \in DOMAIN credits[c] : credits[c][t] = Frac(1, 2)
       /\ \E u \in DOMAIN rows :
            /\ rows[u].kind = "touch"
            /\ rows[u].ts = rows[c].ts
            /\ u \notin DOMAIN credits[c]

\* C18: single-point credit: every conversion with a qualifying touch
\* selects exactly one touch, the earliest for FIRST_TOUCH and the latest
\* for LAST_TOUCH, which gets credit 1; the contributions sum to the number
\* of conversions that have a qualifying touch.
C18_SinglePointCredit ==
  Computed({"FIRST_TOUCH", "LAST_TOUCH"}) =>
    /\ \A c \in DOMAIN credits :
         LET Q == DOMAIN credits[c]
             S == {t \in Q : credits[c][t] = Frac(1, 1)}
         IN /\ Q = TouchesBefore(c)
            /\ \A t \in Q \ S : credits[c][t] = Frac(0, 1)
            /\ Q # {} => Cardinality(S) = 1
            /\ \A t \in S, u \in Q :
                 IF creditModel = "FIRST_TOUCH"
                 THEN rows[t].ts <= rows[u].ts
                 ELSE rows[u].ts <= rows[t].ts
    /\ FracEq(TotalOver(credits, DOMAIN credits),
              Frac(Cardinality({c \in DOMAIN credits :
                                  TouchesBefore(c) # {}}), 1))

\* two conversions with qualifying touches, one of them with two touches
\* of equal timestamp, and a conversion without any
C18_Witness ==
  /\ Computed({"FIRST_TOUCH", "LAST_TOUCH"})
  /\ Cardinality({c \in DOMAIN credits : DOMAIN credits[c] # {}}) = 2
  /\ \E c \in DOMAIN credits :
       \E t, u \in DOMAIN credits[c] : t # u /\ rows[t].ts = rows[u].ts

\* C19: the single-point selection is deterministic under timestamp ties:
\* runs over the same rows, enumerated in different orders, select the same
\* touch for every conversion.
C19_SelectionDeterministic ==
  \A r1, r2 \in runs :
    /\ r1.selection = r2.selection
    /\ \A c \in DOMAIN r1.selection :
         IF DOMAIN credits[c] = {} THEN r1.selection[c] = 0
         ELSE /\ r1.selection[c] \in DOMAIN credits[c]
              /\ credits[c][r1.selection[c]] = Frac(1, 1)

\* two runs in different orders over rows with a timestamp tie among the
\* candidates of a conversion
C19_Witness ==
  /\ Cardinality(runs) = 2
  /\ \E c \in DOMAIN credits :
       \E t, u \in DOMAIN credits[c] :
         /\ t # u
         /\ rows[t].ts = rows[u].ts
         /\ \A r \in runs : r.selection[c] = t

(***************************************************************************)
(* The handler's defensive branches, the adapter call and the outcome      *)
(***************************************************************************)
DefensiveRejections ==
  {Response(400, ApiFail("missing required parameter sheetId")),
   Response(400, ApiFail("Invalid attribution analysis model type"))}

\* C21: with a validator that rejects unsupported model types and a
\* dashboardId without sheetId, no invocation ever answers 'missing required
\* parameter sheetId' or 'Invalid attribution analysis model type': every
\* request that reaches lines 49-68 takes the branches that go on.
C21_DefensiveBranchesUnreachable ==
  \A p \in Procs :
    /\ \A i \in DOMAIN resCalls[p] : resCalls[p][i] \notin DefensiveRejections
    /\ callerResponse[p] \notin DefensiveRejections
    /\ "sheetId" \in Events(p) =>
         /\ Valid(request[p])
         /\ "build" \in Events(p)
         /\ Len(builderCalls[p]) = 1

\* a request for an existing dashboard has passed lines 49-68
C21_Witness ==
  \E p \in Procs :
    /\ request[p].dashboardId # Undefined
    /\ sheetId[p] = request[p].sheetId
    /\ "sheetId" \in Events(p)
    /\ "build" \in Events(p)
    /\ Done(p)

\* C22: every call of the reporting adapter carries one dataset and one
\* visual; the dataset's customSql is the SQL the builder returned, the
\* dataset's tableName, the visual definition, the filter definitions and
\* the viewName argument are the view name derived from (viewName, action),
\* the visual's sheetId is the sheetId argument, and one visualId is used
\* for the visual, its definition and its filter definitions.
C22_AdapterArguments ==
  \A p \in Procs :
    \A i \in DOMAIN adapterCalls[p] :
      LET call == adapterCalls[p][i]
          name == getTempResourceName(query[p].viewName, query[p].action)
      IN /\ Len(call.datasets) = 1
         /\ Len(call.visuals) = 1
         /\ Len(builderCalls[p]) = 1
         /\ call.datasets[1].customSql = builderCalls[p][1]
         /\ call.viewName = name
         /\ call.datasets[1].tableName = name
         /\ call.visuals[1].visual.viewName = name
         /\ call.visuals[1].filters.viewName = name
         /\ call.sheetId = sheetId[p]
         /\ call.visuals[1].sheetId = call.sheetId
         /\ call.visuals[1].filters.sheetId = call.sheetId
         /\ call.visuals[1].visual.visualId = call.visuals[1].visualId
         /\ call.visuals[1].filters.visualId = call.visuals[1].visualId
         /\ call.visuals[1].visualId \in GeneratedUuids
         /\ i = 1

\* the adapter is called for an existing dashboard, with a derived name
\* that differs from the request's viewName
C22_Witness ==
  \E p \in Procs :
    /\ Len(adapterCalls[p]) = 1
    /\ request[p].dashboardId # Undefined
    /\ adapterCalls[p][1].sheetId = request[p].sheetId
    /\ adapterCalls[p][1].viewName # request[p].viewName

Statuses == {201, 400, 404, 500}

\* C23: an invocation has at most one outcome at any time and exactly one
\* when it has ended: one response with status 201, 400, 404 or 500, or one
\* call of next(error), never both; the response is the last step, no
\* builder or adapter call follows it.
C23_OneTerminalOutcome ==
  \A p \in Procs :
    /\ Len(resCalls[p]) + Len(nextCalls[p]) <= 1
    /\ Done(p) <=> Len(resCalls[p]) + Len(nextCalls[p]) = 1
    /\ \A i \in DOMAIN resCalls[p] : resCalls[p][i].status \in Statuses
    /\ Count(trace[p], "response") = Len(resCalls[p])
    /\ Count(trace[p], "next") = Len(nextCalls[p])
    /\ \A i \in DOMAIN trace[p] :
         trace[p][i] \in {"response", "next"} => i = Len(trace[p])
    /\ Len(builderCalls[p]) <= 1
    /\ Len(adapterCalls[p]) <= 1

\* an invocation ended by next(error) after the builder and the adapter
\* were called
C23_Witness ==
  \E p \in Procs :
    /\ Done(p)
    /\ resCalls[p] = <<>>
    /\ Len(nextCalls[p]) = 1
    /\ Len(builderCalls[p]) = 1
    /\ Len(adapterCalls[p]) = 1

\* C24: once the adapter has returned, an undefined result is answered 500
\* whatever the action; a defined result with an empty embed URL is
\* answered 500 when the action is PREVIEW and 201 otherwise.
C24_UndefinedOrEmptyPreview ==
  \A p \in Procs :
    AdapterAnswered(p) =>
      LET status == callerResponse[p].status
      IN /\ ~result[p].defined => status = 500
         /\ (result[p].defined /\ result[p].dashboardEmbedUrl = "") =>
              status = IF request[p].action = PREVIEW THEN 500 ELSE 201
         /\ status = 500 =>
              \/ ~result[p].defined
              \/ result[p].dashboardEmbedUrl = "" /\ request[p].action = PREVIEW

\* the adapter returned undefined for a PUBLISH request
C24_Witness ==
  \E p \in Procs :
    /\ AdapterAnswered(p)
    /\ ~result[p].defined
    /\ request[p].action = PUBLISH
    /\ resCalls[p] = <<GenerationFailure>>

(***************************************************************************)
(* The refresh-basic-view lambda                                           *)
(* (analytics/lambdas/refresh-materialized-views-workflow/                 *)
(* refresh-basic-view.ts).  The handler is cut at its one await, the call  *)
(* of executeStatements; the lambda may be invoked again once an           *)
(* invocation has ended.                                                   *)
(***************************************************************************)
\* number of invocations of the lambda
MaxInvocations == 2

RefreshBasicViewEvent ==
  [detail : [viewName : {"v1", "v2"}],
   timezoneWithAppId : [appId : {"app1", "app2"},
                        timezone : {"UTC", "Asia/Shanghai"}]]

\* what executeStatements answers: a query id (possibly undefined) or an
\* exception
QueryIds == {"q1", "q2", Undefined}

ExecuteErrors == {"Error:executeStatements"}

ExecuteAnswers ==
  {[ok |-> TRUE, queryId |-> q, error |-> ""] : q \in QueryIds} \cup
  {[ok |-> FALSE, queryId |-> Undefined, error |-> e] : e \in ExecuteErrors}

\* the schema is left out of the statement
RefreshStatement_NoSchema(timezoneWithAppId, viewName) ==
  "REFRESH MATERIALIZED VIEW " \o viewName \o ";"

\* line 57: `REFRESH MATERIALIZED VIEW ${timezoneWithAppId.appId}.${viewName};`
RefreshStatement(timezoneWithAppId, viewName) ==
  "REFRESH MATERIALIZED VIEW " \o timezoneWithAppId.appId \o "." \o viewName
    \o ";"

NoRefreshResult ==
  [detail |-> [queryId |-> Undefined, viewName |-> ""],
   timezoneWithAppId |-> [appId |-> "", timezone |-> ""]]

\* lines 64-70: the value the handler returns
RefreshResult(queryId, viewName, timezoneWithAppId) ==
  [detail |-> [queryId |-> queryId, viewName |-> viewName],
   timezoneWithAppId |-> timezoneWithAppId]

Returned(value) == [kind |-> "return", value |-> value, error |-> ""]

\* lines 71-74: the exception leaves the handler
Thrown(err) == [kind |-> "throw", value |-> NoRefreshResult, error |-> err]

\* lines 42-60: the handler is invoked, makes the statement in a new array
\* and hands the array to executeStatements
InvokeRefresh ==
  /\ refreshPc = "ready"
  /\ Len(refreshEvents) < MaxInvocations
  /\ \E event \in RefreshBasicViewEvent :
       LET timezoneWithAppId == event.timezoneWithAppId
           viewName == event.detail.viewName
           statements == Append(<<>>, RefreshStatement(timezoneWithAppId,
                                                       viewName))
       IN /\ refreshEvents' = Append(refreshEvents, event)
          /\ sqlStatements' = statements
          /\ executed' = Append(executed, statements)
  /\ refreshPc' = "awaitExecute"
  /\ UNCHANGED <<executeResults, refreshOutcomes>>
  /\ UNCHANGED <<handlerVars, creditVars, retentionVars>>

\* lines 59-70: executeStatements returns a query id, the handler returns
ExecuteReturned ==
  /\ refreshPc = "awaitExecute"
  /\ \E answer \in {a \in ExecuteAnswers : a.ok} :
       LET event == refreshEvents[Len(refreshEvents)]
       IN /\ executeResults' = Append(executeResults, answer)
          /\ refreshOutcomes' =
               Append(refreshOutcomes,
                      Returned(RefreshResult(answer.queryId,
                                             event.detail.viewName,
                                             event.timezoneWithAppId)))
  /\ refreshPc' = "ready"
  /\ UNCHANGED <<refreshEvents, sqlStatements, executed>>
  /\ UNCHANGED <<handlerVars, creditVars, retentionVars>>

\* lines 59-60 and 71-74: executeStatements throws, the handler logs the
\* error and throws it again
ExecuteThrew ==
  /\ refreshPc = "awaitExecute"
  /\ \E answer \in {a \in ExecuteAnswers : ~a.ok} :
       /\ executeResults' = Append(executeResults, answer)
       /\ refreshOutcomes' = Append(refreshOutcomes, Thrown(answer.error))
  /\ refreshPc' = "ready"
  /\ UNCHANGED <<refreshEvents, sqlStatements, executed>>
  /\ UNCHANGED <<handlerVars, creditVars, retentionVars>>

InitRefresh ==
  /\ HandlerInit([p \in Procs |-> IdleRequest], {})
  /\ CreditIdle
  /\ refreshPc = "ready"
  /\ refreshEvents = <<>>
  /\ sqlStatements = <<>>
  /\ executed = <<>>
  /\ executeResults = <<>>
  /\ refreshOutcomes = <<>>
  /\ viewPhase = "idle"
  /\ baseView = <<>>
  /\ retentionView = {}

NextRefresh == InvokeRefresh \/ ExecuteReturned \/ ExecuteThrew

SpecRefresh == InitRefresh /\ [][NextRefresh]_vars

MaxViewRows == 3

NULL == "NULL"

\* NULL in the integer column day_diff
NullDiff == -1

BaseViewRows ==
  [user_pseudo_id : {"u1", "u2", NULL},
   first_date : {"d1", "d2", NULL},
   day_diff : {0, 1, NullDiff}]

\* the base view is a multiset of rows: it is kept as the list of its rows
\* in the order of RowKey
IndexOf(x, seq) == CHOOSE i \in DOMAIN seq : seq[i] = x

RowKey(r) ==
  9 * IndexOf(r.user_pseudo_id, <<"u1", "u2", NULL>>)
    + 3 * IndexOf(r.first_date, <<"d1", "d2", NULL>>)
    + IndexOf(r.day_diff, <<0, 1, NullDiff>>)

BaseViews ==
  {rs \in UNION {[1..n -> BaseViewRows] : n \in 0..MaxViewRows} :
     \A i \in DOMAIN rs : i > 1 => RowKey(rs[i - 1]) <= RowKey(rs[i])}

\* a = b in a WHERE or USING clause
SqlEq(a, b) == a # NULL /\ b # NULL /\ a = b

\* min(day_diff) of the group of user u
MinDayDiff(rs, u) ==
  LET D == {rs[i].day_diff : i \in {j \in DOMAIN rs :
                                      rs[j].user_pseudo_id = u}} \ {NullDiff}
  IN IF D = {} THEN NullDiff
     ELSE CHOOSE m \in D : \A d \in D : m <= d

\* having(min(day_diff)) > 0
Having(m) == m # NullDiff /\ m > 0

\* lines 288-294
except_user(rs) ==
  {u \in {rs[i].user_pseudo_id : i \in DOMAIN rs} : Having(MinDayDiff(rs, u))}

\* no row is filtered out
NotExistsExceptUser_Always(rs, u) == TRUE

\* lines 305-309 and 321-325: WHERE NOT EXISTS (SELECT 1 FROM except_user
\* WHERE except_user.user_pseudo_id = view.user_pseudo_id)
NotExistsExceptUser(rs, u) == ~\E e \in except_user(rs) : SqlEq(e, u)

Kept(rs) == {i \in DOMAIN rs : NotExistsExceptUser(rs, rs[i].user_pseudo_id)}

\* lines 300-311: the subquery t2, grouped by first_date and user_pseudo_id
t2(rs) ==
  {[first_date |-> rs[i].first_date, user_pseudo_id |-> rs[i].user_pseudo_id]
     : i \in Kept(rs)}

\* lines 296-313
total_users(rs) ==
  {[first_date |-> d,
    total_users |-> Cardinality({t \in t2(rs) : /\ t.first_date = d
                                                /\ t.user_pseudo_id # NULL})]
     : d \in {t.first_date : t \in t2(rs)}}

\* lines 315-327
retention_counts(rs) ==
  {[first_date |-> g[1],
    day_diff |-> g[2],
    returned_user_count |->
      Cardinality({rs[i].user_pseudo_id :
                     i \in {j \in Kept(rs) : /\ rs[j].first_date = g[1]
                                             /\ rs[j].day_diff = g[2]}}
                  \ {NULL})]
     : g \in {<<rs[i].first_date, rs[i].day_diff>> : i \in Kept(rs)}}

\* lines 329-335: retention_counts rc JOIN total_users tu USING (first_date)
RetentionView(rs) ==
  {[first_date |-> rc.first_date,
    day_diff |-> rc.day_diff,
    returned_user_count |-> rc.returned_user_count,
    total_users |-> tu.total_users]
     : <<rc, tu>> \in {pair \in retention_counts(rs) \X total_users(rs) :
                         SqlEq(pair[1].first_date, pair[2].first_date)}}

\* the view is queried
QueryRetentionView ==
  /\ viewPhase = "content"
  /\ viewPhase' = "queried"
  /\ retentionView' = RetentionView(baseView)
  /\ UNCHANGED baseView
  /\ UNCHANGED <<handlerVars, creditVars, refreshVars>>

InitRetention ==
  /\ HandlerInit([p \in Procs |-> IdleRequest], {})
  /\ CreditIdle
  /\ refreshPc = "idle"
  /\ refreshEvents = <<>>
  /\ sqlStatements = <<>>
  /\ executed = <<>>
  /\ executeResults = <<>>
  /\ refreshOutcomes = <<>>
  /\ viewPhase = "content"
  /\ baseView \in BaseViews
  /\ retentionView = {}

NextRetention == QueryRetentionView

SpecRetention == InitRetention /\ [][NextRetention]_vars

\* the rows of user u
RowsOf(u) == {i \in DOMAIN baseView : baseView[i].user_pseudo_id = u}

\* the minimum day_diff of user u is greater than 0
MinPositive(u) ==
  /\ \E i \in RowsOf(u) : baseView[i].day_diff # NullDiff
  /\ \A i \in RowsOf(u) :
       baseView[i].day_diff # NullDiff => baseView[i].day_diff > 0

\* the users that count for first_date d, and for (d, day_diff dd)
UsersOf(d) ==
  {baseView[i].user_pseudo_id :
     i \in {j \in DOMAIN baseView : baseView[j].first_date = d}} \ {NULL}

UsersAt(d, dd) ==
  {baseView[i].user_pseudo_id :
     i \in {j \in DOMAIN baseView : /\ baseView[j].first_date = d
                                    /\ baseView[j].day_diff = dd}} \ {NULL}

\* users with a minimum day_diff greater than 0 are in neither count, and
\* returned_user_count <= total_users in every output row
CountsWithoutExcepted ==
  \A o \in retentionView :
    /\ o.total_users =
         Cardinality({u \in UsersOf(o.first_date) : ~MinPositive(u)})
    /\ o.returned_user_count =
         Cardinality({u \in UsersAt(o.first_date, o.day_diff) :
                        ~MinPositive(u)})
    /\ o.returned_user_count <= o.total_users

\* C26 as stated: users whose minimum day_diff is greater than 0 are in
\* neither count, returned_user_count <= total_users, and every first_date
\* of the output has total_users >= 1.
C26_Original ==
  viewPhase = "queried" =>
    /\ CountsWithoutExcepted
    /\ \A o \in retentionView : o.total_users >= 1

\* C26: users whose minimum day_diff is greater than 0 are in neither
\* count and returned_user_count <= total_users in every output row; a
\* first_date of the output has total_users >= 1 exactly when one of its
\* rows has a non-NULL user_pseudo_id whose minimum day_diff is not greater
\* than 0, and total_users = 0 when all its rows left have a NULL
\* user_pseudo_id.
C26_RetentionCounts ==
  viewPhase = "queried" =>
    /\ CountsWithoutExcepted
    /\ \A o \in retentionView :
         /\ o.first_date # NULL
         /\ o.total_users >= 1 <=>
              \E u \in UsersOf(o.first_date) : ~MinPositive(u)
         /\ o.total_users = 0 =>
              /\ o.returned_user_count = 0
              /\ \E i \in DOMAIN baseView :
                   /\ baseView[i].first_date = o.first_date
                   /\ baseView[i].user_pseudo_id = NULL

\* a user with minimum day_diff 1 is left out of a first_date that another
\* user keeps in the output, and a first_date whose only row has a NULL
\* user_pseudo_id is in the output with total_users = 0
C26_Witness ==
  /\ viewPhase = "queried"
  /\ \E u \in UsersOf("d1") : MinPositive(u)
  /\ \E o \in retentionView : o.first_date = "d1" /\ o.total_users = 1
  /\ \E o \in retentionView : o.first_date = "d2" /\ o.total_users = 0

====
